---- MODULE Spec2Model ----
(***************************************************************************)
(* A model of src/src/testParser.ts: the ingestion of JUnit report files   *)
(* (parseTestReports / parseFile / parseSuite), the reconciliation of      *)
(* retried test cases, and the two resolvers (resolveFileAndLine and       *)
(* resolvePath).                                                           *)
(*                                                                         *)
(* Spec       parseTestReports, with the recursion of parseSuite unfolded  *)
(*            into an explicit call stack (one frame per parseSuite call). *)
(* SpecRetry  the checkRetries loop of parseSuite, one test case a step.   *)
(* SpecPath   resolvePath, one candidate of the glob a step.               *)
(* SpecLoc    resolveFileAndLine.                                          *)
(*                                                                         *)
(* A JavaScript string is a sequence of one-character strings; a value     *)
(* that may be null or undefined is a sequence of no or one element.       *)
(***************************************************************************)
EXTENDS Integers, Sequences, FiniteSets, TLC

VARIABLES
    annotationsLimit,   \* parseTestReports' parameter
    annotatePassed,     \* parseTestReports' parameter
    checkRetries,       \* parseTestReports' parameter
    pc,                 \* where parseTestReports is: "glob", "parse", "done"
    stack,              \* the parseSuite calls in progress, innermost last
    totalCount,         \* parseTestReports' local
    skipped,            \* parseTestReports' local
    annotations,        \* parseTestReports' local
    foundFiles,         \* parseTestReports' local
    read,               \* history: the elements (suites, test cases) read so far,
                        \* the test cases among them that outlive the
                        \* reconciliation of retries, the files that did not convert
    result,             \* the TestResult returned (meaningful when pc = "done")
    retry,              \* the locals of the checkRetries block (SpecRetry)
    path,               \* the locals of resolvePath (SpecPath)
    loc                 \* the locals of resolveFileAndLine (SpecLoc)

vars == <<annotationsLimit, annotatePassed, checkRetries, pc, stack, totalCount,
          skipped, annotations, foundFiles, read, result, retry, path, loc>>

others == <<retry, path, loc>>

mainVars == <<annotationsLimit, annotatePassed, checkRetries, pc, stack, totalCount,
              skipped, annotations, foundFiles, read, result>>

(***************************************************************************)
(* Bounds.                                                                 *)
(***************************************************************************)
\* the elements (suites and test cases) of all report files of one run
MaxNodes == 5
\* the report files the glob yields in one run
MaxFiles == 2
\* the largest annotationsLimit tried
MaxLimit == 2
\* the test cases of the suite the checkRetries loop is run on
MaxRetryCases == 4
\* the entries of excludeSources
MaxExcludes == 2
\* the files the glob of resolvePath yields
MaxMatches == 2

(***************************************************************************)
(* Documents.  A test case is the part of xml-js's compact element the     *)
(* code reads to classify it: its name attribute, whether it has a         *)
(* <failure>, an <error>, a <skipped> child, and its status attribute.     *)
(* A report file is read as parseSuite walks it: how many suites a         *)
(* testsuite(s) list holds is drawn when the list is first read, the       *)
(* testcase children of a suite when the code reads testsuite.testcase.    *)
(* A missing child list is the empty one.                                  *)
(***************************************************************************)
TC(name, failure, error, skip, status) ==
    [name |-> name, failure |-> failure, error |-> error, skipped |-> skip,
     status |-> status]

Names == {"T", "U"}

\* the test cases the report files are made of
TestCases ==
    { TC("T", FALSE, FALSE, FALSE, ""),          \* passes
      TC("T", TRUE, FALSE, FALSE, ""),           \* fails
      TC("T", TRUE, FALSE, FALSE, "ignored"),    \* fails, and is ignored
      TC("U", FALSE, TRUE, TRUE, ""),            \* errors, and is skipped
      TC("U", FALSE, FALSE, FALSE, "disabled") } \* is disabled

\* the test cases the checkRetries loop is run on
RetryCases ==
    { TC(n, f, e, FALSE, "") : n \in Names, f \in BOOLEAN, e \in BOOLEAN }

\* the testcase children a suite can have, n elements being left to read
TestCaseLists(n) == UNION { [1..m -> TestCases] : m \in 0..n }

(***************************************************************************)
(* The Map of the checkRetries loop: a JavaScript Map keeps its keys in    *)
(* the order of their first insertion; set() on a key it has replaces the  *)
(* value where it is.                                                      *)
(***************************************************************************)
MapHas(m, key) == \E k \in 1..Len(m) : m[k].key = key

MapGet(m, key) == m[CHOOSE k \in 1..Len(m) : m[k].key = key].value

\* a mutant of MapSet: the key is deleted and inserted anew, at the end
MapSet_Reinserts(m, key, value) ==
    Append(SelectSeq(m, LAMBDA e : e.key # key), [key |-> key, value |-> value])

MapSet(m, key, value) ==
    IF MapHas(m, key)
    THEN [k \in 1..Len(m) |-> IF m[k].key = key
                               THEN [key |-> key, value |-> value] ELSE m[k]]
    ELSE Append(m, [key |-> key, value |-> value])

MapValues(m) == [k \in 1..Len(m) |-> m[k].value]

\* testcase.failure || testcase.error
TestFailure(testcase) == testcase.failure \/ testcase.error

\* a mutant of ReconcileStep: the later run of a test case replaces the earlier
\* one whenever their outcomes differ
ReconcileStep_LastWins(testcaseMap, testcase) ==
    LET key == testcase.name IN
    IF MapHas(testcaseMap, key)
    THEN LET failed == TestFailure(testcase)
             previousFailed == TestFailure(MapGet(testcaseMap, key))
         IN IF failed # previousFailed THEN MapSet(testcaseMap, key, testcase)
            ELSE testcaseMap
    ELSE MapSet(testcaseMap, key, testcase)

\* one iteration of the checkRetries loop
ReconcileStep(testcaseMap, testcase) ==
    LET key == testcase.name IN
    IF MapHas(testcaseMap, key)
    THEN LET failed == TestFailure(testcase)
             previousFailed == TestFailure(MapGet(testcaseMap, key))
         IN IF failed /\ ~previousFailed THEN testcaseMap
            ELSE IF ~failed /\ previousFailed THEN MapSet(testcaseMap, key, testcase)
            ELSE testcaseMap
    ELSE MapSet(testcaseMap, key, testcase)

RECURSIVE ReconcileFrom(_, _, _)
ReconcileFrom(testcaseMap, testcases, k) ==
    IF k > Len(testcases) THEN testcaseMap
    ELSE ReconcileFrom(ReconcileStep(testcaseMap, testcases[k]), testcases, k + 1)

\* the test cases of a suite after the checkRetries block
Reconciled(testcases, retries) ==
    IF retries THEN MapValues(ReconcileFrom(<<>>, testcases, 1)) ELSE testcases

(***************************************************************************)
(* One test case.                                                          *)
(***************************************************************************)
Skip(testcase) ==
    testcase.skipped \/ testcase.status = "disabled" \/ testcase.status = "ignored"

\* a mutant of AnnotationLevel: a skipped test case that failed is a failure
AnnotationLevel_IgnoresSkip(success, skip) == IF success THEN "notice" ELSE "failure"

AnnotationLevel(success, skip) == IF success \/ skip THEN "notice" ELSE "failure"

AnnotationStatus(success, skip) ==
    IF skip THEN "skipped" ELSE IF success THEN "success" ELSE "failure"

\* The annotation pushed for a test case.  Its title is the test case's name:
\* the title the code builds with no suiteRegex, no checkTitleTemplate and a
\* resolved file name equal to the name.  The path, the lines, the message and
\* the details come from the resolvers and the payload's text.
Annotation(testcase) ==
    LET success == ~TestFailure(testcase)
        skip == Skip(testcase)
    IN [annotation_level |-> AnnotationLevel(success, skip),
        status |-> AnnotationStatus(success, skip),
        title |-> testcase.name]

RECURSIVE CountIf(_, _)
\* annotations.filter(a => a.annotation_level === 'failure' || all).length
CountIf(anns, all) ==
    IF anns = <<>> THEN 0
    ELSE (IF Head(anns).annotation_level = "failure" \/ all THEN 1 ELSE 0)
         + CountIf(Tail(anns), all)

LimitReached(anns, limit, passed) == limit > 0 /\ CountIf(anns, passed) >= limit

(***************************************************************************)
(* parseSuite, one frame per call.  A frame holds the call's locals;       *)
(* testsuites is the number of suites the loop over the suites has yet to  *)
(* yield, the current one included, and testcases the test cases the loop  *)
(* over the test cases has yet to yield, the current one first.            *)
(***************************************************************************)
NewFrame(testsuites) ==
    [testsuites |-> testsuites, totalCount |-> 0, skipped |-> 0,
     annotations |-> <<>>, testcases |-> <<>>,
     pc |-> IF testsuites = 0 THEN "return" ELSE "suite"]

\* the next iteration of the loop over the suites, or the return after the last
NextSuite(f) ==
    [f EXCEPT !.testsuites = f.testsuites - 1, !.testcases = <<>>,
              !.pc = IF f.testsuites = 1 THEN "return" ELSE "suite"]

Top == stack[Len(stack)]

SetTop(f) == [stack EXCEPT ![Len(stack)] = f]

\* a mutant of Passed: the skipped test cases count as passed
Passed_WithSkipped(total, failed, skip) == total - failed

Passed(total, failed, skip) == total - failed - skip

TestResult(total, skip, anns, files) ==
    LET failed == CountIf(anns, FALSE) IN
    [totalCount |-> total, skipped |-> skip, failed |-> failed,
     passed |-> Passed(total, failed, skip), foundFiles |-> files,
     annotations |-> anns]

\* the history after n more elements were read, cases of them test cases that
\* outlive the reconciliation of retries
Read(n, cases) == [read EXCEPT !.nodes = read.nodes + n, !.cases = read.cases + cases]

NoResult == TestResult(0, 0, <<>>, 0)

\* the locals of the functions a specification does not run
NoRetry == [pc |-> "off", testcase |-> <<>>, testcases |-> <<>>, k |-> 1,
            testcaseMap |-> <<>>]

NoPath == [pc |-> "off", fileName |-> <<>>, excludeSources |-> <<>>,
           normalizedFilename |-> <<>>, searchPath |-> <<>>, matched |-> <<>>,
           results |-> <<>>, returned |-> <<>>]

NoLoc == [pc |-> "off", file |-> <<>>, line |-> <<>>, className |-> <<>>,
          output |-> <<>>, fileName |-> <<>>, lineNumber |-> <<>>,
          searched |-> FALSE, matches |-> <<>>,
          pos |-> [fileName |-> <<>>, line |-> 0]]

Init ==
    /\ annotationsLimit \in {-1} \cup 1..MaxLimit
    /\ annotatePassed \in BOOLEAN
    /\ checkRetries \in BOOLEAN
    /\ pc = "glob"
    /\ stack = <<>>
    /\ totalCount = 0
    /\ skipped = 0
    /\ annotations = <<>>
    /\ foundFiles = 0
    /\ read = [nodes |-> 0, cases |-> 0, malformed |-> 0]
    /\ result = NoResult
    /\ retry = NoRetry
    /\ path = NoPath
    /\ loc = NoLoc

\* a mutant of ParseFileFails: the failure ends the loop over the files
ParseFileFails_EndsRun ==
    /\ pc = "glob"
    /\ foundFiles < MaxFiles
    /\ foundFiles' = foundFiles + 1
    /\ read' = [read EXCEPT !.malformed = read.malformed + 1]
    /\ pc' = "done"
    /\ result' = TestResult(totalCount, skipped, annotations, foundFiles')
    /\ UNCHANGED <<annotationsLimit, annotatePassed, checkRetries, stack, totalCount,
                   skipped, annotations, others>>

\* the glob yields a file that xml2json cannot convert: parseFile returns the
\* empty result and parseTestReports continues (c === 0)
ParseFileFails ==
    /\ pc = "glob"
    /\ foundFiles < MaxFiles
    /\ foundFiles' = foundFiles + 1
    /\ read' = [read EXCEPT !.malformed = read.malformed + 1]
    /\ pc' = "glob"
    /\ UNCHANGED <<annotationsLimit, annotatePassed, checkRetries, stack, totalCount,
                   skipped, annotations, result, others>>

\* the glob yields a file that converts: parseFile calls parseSuite on it
ParseFile ==
    /\ pc = "glob"
    /\ foundFiles < MaxFiles
    /\ \E testsuites \in 0..(MaxNodes - read.nodes) :
         /\ read' = Read(testsuites, 0)
         /\ stack' = <<NewFrame(testsuites)>>
    /\ foundFiles' = foundFiles + 1
    /\ pc' = "parse"
    /\ UNCHANGED <<annotationsLimit, annotatePassed, checkRetries, totalCount,
                   skipped, annotations, result, others>>

\* the loop over the suites reaches a suite: the recursive call on it
CallParseSuite ==
    /\ pc = "parse"
    /\ Top.pc = "suite"
    /\ \E testsuites \in 0..(MaxNodes - read.nodes) :
         /\ read' = Read(testsuites, 0)
         /\ stack' = Append(SetTop([Top EXCEPT !.pc = "call"]), NewFrame(testsuites))
    /\ UNCHANGED <<annotationsLimit, annotatePassed, checkRetries, pc, totalCount,
                   skipped, annotations, foundFiles, result, others>>

\* the recursive call returns: its result is added, then the suite's own test
\* cases (testsuite.testcase) are read
ReturnToSuite ==
    /\ pc = "parse"
    /\ Len(stack) >= 2
    /\ Top.pc = "return"
    /\ \E testcase \in TestCaseLists(MaxNodes - read.nodes) :
         LET res == Top
             caller == stack[Len(stack) - 1]
             testcases == Reconciled(testcase, checkRetries)
             f == [caller EXCEPT !.totalCount = caller.totalCount + res.totalCount,
                                 !.skipped = caller.skipped + res.skipped,
                                 !.annotations = caller.annotations \o res.annotations]
             g == IF testcase = <<>> THEN NextSuite(f)
                  ELSE IF LimitReached(f.annotations, annotationsLimit, annotatePassed)
                       THEN [f EXCEPT !.pc = "return"]
                       ELSE [f EXCEPT !.testcases = testcases, !.pc = "cases"]
         IN /\ stack' = Append(SubSeq(stack, 1, Len(stack) - 2), g)
            /\ read' = Read(Len(testcase), Len(testcases))
    /\ UNCHANGED <<annotationsLimit, annotatePassed, checkRetries, pc, totalCount,
                   skipped, annotations, foundFiles, result, others>>

\* a mutant of ParseTestCase: a skipped test case is counted and not annotated
ParseTestCase_SkipsSilently ==
    /\ pc = "parse"
    /\ Top.pc = "cases"
    /\ LET testcase == Head(Top.testcases)
           f == [Top EXCEPT !.totalCount = Top.totalCount + 1,
                            !.skipped = Top.skipped + (IF Skip(testcase) THEN 1 ELSE 0),
                            !.annotations = IF Skip(testcase) THEN Top.annotations
                                            ELSE Append(Top.annotations,
                                                        Annotation(testcase))]
           g == IF LimitReached(f.annotations, annotationsLimit, annotatePassed)
                THEN [f EXCEPT !.pc = "return"]
                ELSE IF Len(f.testcases) = 1 THEN NextSuite(f)
                     ELSE [f EXCEPT !.testcases = Tail(f.testcases)]
       IN stack' = SetTop(g)
    /\ UNCHANGED <<annotationsLimit, annotatePassed, checkRetries, pc, totalCount,
                   skipped, annotations, foundFiles, read, result, others>>

\* one iteration of the loop over the test cases of a suite
ParseTestCase ==
    /\ pc = "parse"
    /\ Top.pc = "cases"
    /\ LET testcase == Head(Top.testcases)
           f == [Top EXCEPT !.totalCount = Top.totalCount + 1,
                            !.skipped = Top.skipped + (IF Skip(testcase) THEN 1 ELSE 0),
                            !.annotations = Append(Top.annotations, Annotation(testcase))]
           g == IF LimitReached(f.annotations, annotationsLimit, annotatePassed)
                THEN [f EXCEPT !.pc = "return"]
                ELSE IF Len(f.testcases) = 1 THEN NextSuite(f)
                     ELSE [f EXCEPT !.testcases = Tail(f.testcases)]
       IN stack' = SetTop(g)
    /\ UNCHANGED <<annotationsLimit, annotatePassed, checkRetries, pc, totalCount,
                   skipped, annotations, foundFiles, read, result, others>>

\* parseFile returns to parseTestReports: the file's result is added, and the
\* loop over the files goes on or, the limit reached, breaks and returns
ReturnToReports ==
    /\ pc = "parse"
    /\ Len(stack) = 1
    /\ Top.pc = "return"
    /\ stack' = <<>>
    /\ IF Top.totalCount = 0
       THEN /\ pc' = "glob"
            /\ UNCHANGED <<totalCount, skipped, annotations, result>>
       ELSE /\ totalCount' = totalCount + Top.totalCount
            /\ skipped' = skipped + Top.skipped
            /\ annotations' = annotations \o Top.annotations
            /\ IF LimitReached(annotations', annotationsLimit, annotatePassed)
               THEN /\ pc' = "done"
                    /\ result' = TestResult(totalCount', skipped', annotations', foundFiles)
               ELSE /\ pc' = "glob"
                    /\ UNCHANGED result
    /\ UNCHANGED <<annotationsLimit, annotatePassed, checkRetries, foundFiles, read,
                   others>>

\* the glob yields no more files: parseTestReports returns
GlobEnds ==
    /\ pc = "glob"
    /\ pc' = "done"
    /\ result' = TestResult(totalCount, skipped, annotations, foundFiles)
    /\ UNCHANGED <<annotationsLimit, annotatePassed, checkRetries, stack, totalCount,
                   skipped, annotations, foundFiles, read, others>>

Next ==
    \/ ParseFileFails
    \/ ParseFile
    \/ CallParseSuite
    \/ ReturnToSuite
    \/ ParseTestCase
    \/ ReturnToReports
    \/ GlobEnds

Spec == Init /\ [][Next]_vars

(***************************************************************************)
(* Properties of parseTestReports (Spec).                                  *)
(***************************************************************************)
\* how many annotations have the status st
WithStatus(anns, st) == Cardinality({ k \in 1..Len(anns) : anns[k].status = st })

\* how many annotations have the level lv
WithLevel(anns, lv) == Cardinality({ k \in 1..Len(anns) : anns[k].annotation_level = lv })

\* C1: with annotationsLimit = N > 0, the TestResult returned holds at most N
\* capped annotations (the failure-level ones, or all of them with
\* annotatePassed), whatever the files, the sibling suites and the nesting.
C1_AtMostLimitAnnotations ==
    (pc = "done" /\ annotationsLimit > 0)
        => CountIf(result.annotations, annotatePassed) <= annotationsLimit

\* C2: the totalCount returned is the number of test cases (after the
\* reconciliation of retries) of the report files read, whatever the limit.
C2_TotalCountsEveryCase ==
    pc = "done" => result.totalCount = read.cases

\* C3: in the TestResult returned, totalCount = passed + failed + skipped and
\* failed is the number of annotations of level 'failure'.
C3_TotalsAddUp ==
    pc = "done" =>
        /\ result.totalCount = result.passed + result.failed + result.skipped
        /\ result.failed = WithLevel(result.annotations, "failure")

C3_Witness ==
    /\ pc = "done"
    /\ foundFiles = 2
    /\ result.passed >= 1
    /\ result.failed >= 1
    /\ result.skipped >= 1

\* every annotation of status 'skipped' is of level 'notice'
SkippedAreNotices(anns) ==
    \A k \in 1..Len(anns) :
        anns[k].status = "skipped" => anns[k].annotation_level = "notice"

\* C4: a test case with a skipped marker or the status 'disabled' or 'ignored',
\* also one with a failure or error payload, gets an annotation of status
\* 'skipped' and level 'notice', adds one to skipped and nothing to the
\* failure-level annotations (which failed counts); and every annotation of
\* status 'skipped', wherever it is held, is of level 'notice'.
C4_SkipPrecedence ==
    /\ [](/\ SkippedAreNotices(annotations)
          /\ SkippedAreNotices(result.annotations)
          /\ \A d \in 1..Len(stack) : SkippedAreNotices(stack[d].annotations))
    /\ [][(pc = "parse" /\ Top.pc = "cases" /\ Skip(Head(Top.testcases))) =>
            LET after == stack'[Len(stack)] IN
            /\ Len(stack') = Len(stack)
            /\ after.annotations =
                 Append(Top.annotations,
                        [annotation_level |-> "notice", status |-> "skipped",
                         title |-> Head(Top.testcases).name])
            /\ after.skipped = Top.skipped + 1
            /\ after.totalCount = Top.totalCount + 1
            /\ WithLevel(after.annotations, "failure")
                 = WithLevel(Top.annotations, "failure")]_vars

\* a run that read one test case, skipped and with a payload, and returned
C4_Witness ==
    /\ pc = "done"
    /\ read.cases = 1
    /\ result.skipped = 1
    /\ result.failed = 0
    /\ result.passed = 0
    /\ result.annotations = <<[annotation_level |-> "notice", status |-> "skipped",
                               title |-> "T"]>>

\* C6: a report file that xml2json cannot convert adds nothing to totalCount,
\* skipped and the annotations and does not end parseTestReports, which goes on
\* to the next file; and what parseFile returns for a file is added to the
\* totals of parseTestReports.
C6_MalformedFileIsSkipped ==
    /\ [][(pc = "glob" /\ read'.malformed = read.malformed + 1) =>
            /\ pc' = "glob"
            /\ foundFiles' = foundFiles + 1
            /\ UNCHANGED <<totalCount, skipped, annotations, stack>>]_vars
    /\ [][(pc = "parse" /\ Len(stack) = 1 /\ Top.pc = "return") =>
            /\ totalCount' = totalCount + Top.totalCount
            /\ skipped' = skipped + Top.skipped
            /\ annotations' = annotations \o Top.annotations]_vars

\* the second file, read after one that did not convert, has had a test case counted
C6_Witness ==
    /\ pc = "parse"
    /\ foundFiles = 2
    /\ read.malformed = 1
    /\ Top.totalCount >= 1

\* C10: every test case counted has one annotation: in every result of
\* parseSuite and of parseTestReports annotations.length = totalCount and
\* skipped is the number of annotations of status 'skipped', and in the
\* TestResult passed is the number of annotations of status 'success', so
\* never negative.
C10_OneAnnotationPerCase ==
    /\ \A d \in 1..Len(stack) :
          /\ Len(stack[d].annotations) = stack[d].totalCount
          /\ stack[d].skipped = WithStatus(stack[d].annotations, "skipped")
    /\ Len(annotations) = totalCount
    /\ skipped = WithStatus(annotations, "skipped")
    /\ pc = "done" =>
          /\ Len(result.annotations) = result.totalCount
          /\ result.skipped = WithStatus(result.annotations, "skipped")
          /\ result.passed = WithStatus(result.annotations, "success")
          /\ result.passed >= 0

C10_Witness ==
    /\ pc = "done"
    /\ result.totalCount = 4
    /\ result.skipped = 2
    /\ result.passed = 1
    /\ result.failed = 1

(***************************************************************************)
(* SpecRetry: the checkRetries block of parseSuite on one suite's test     *)
(* cases.  retry.testcase is testsuite.testcase, retry.testcases the       *)
(* local the block rewrites, retry.k the place of the for-of loop.         *)
(***************************************************************************)
MainOff ==
    /\ annotationsLimit = -1
    /\ annotatePassed = FALSE
    /\ checkRetries = TRUE
    /\ pc = "off"
    /\ stack = <<>>
    /\ totalCount = 0
    /\ skipped = 0
    /\ annotations = <<>>
    /\ foundFiles = 0
    /\ read = [nodes |-> 0, cases |-> 0, malformed |-> 0]
    /\ result = NoResult

InitRetry ==
    /\ MainOff
    /\ \E n \in 0..MaxRetryCases : \E testcase \in [1..n -> RetryCases] :
         retry = [pc |-> "loop", testcase |-> testcase, testcases |-> testcase,
                  k |-> 1, testcaseMap |-> <<>>]
    /\ path = NoPath
    /\ loc = NoLoc

\* one iteration of the loop over the test cases
RetryIteration ==
    /\ retry.pc = "loop"
    /\ retry.k <= Len(retry.testcases)
    /\ retry' = [retry EXCEPT
                   !.testcaseMap = ReconcileStep(retry.testcaseMap,
                                                 retry.testcases[retry.k]),
                   !.k = retry.k + 1]
    /\ UNCHANGED <<mainVars, path, loc>>

\* after the loop: testcases = Array.from(testcaseMap.values())
RetryValues ==
    /\ retry.pc = "loop"
    /\ retry.k > Len(retry.testcases)
    /\ retry' = [retry EXCEPT !.testcases = MapValues(retry.testcaseMap),
                              !.pc = "done"]
    /\ UNCHANGED <<mainVars, path, loc>>

NextRetry == RetryIteration \/ RetryValues

SpecRetry == InitRetry /\ [][NextRetry]_vars

(***************************************************************************)
(* Strings.                                                                *)
(***************************************************************************)
\* whether lit stands in str at place p
IsAt(str, p, lit) ==
    /\ p >= 1
    /\ p + Len(lit) - 1 <= Len(str)
    /\ \A i \in 1..Len(lit) : str[p + i - 1] = lit[i]

\* str.includes(v)
Includes(str, v) == \E p \in 1..(Len(str) + 1) : IsAt(str, p, v)

\* str.slice(n), for 0 <= n
Slice(str, n) == SubSeq(str, n + 1, Len(str))

\* array.find(pred), for the predicate v => str.includes(v): the first such
\* element, or undefined
FindIncluded(array, str) ==
    IF \E k \in 1..Len(array) : Includes(str, array[k])
    THEN <<array[CHOOSE k \in 1..Len(array) :
                   /\ Includes(str, array[k])
                   /\ \A j \in 1..(k - 1) : ~Includes(str, array[j])]>>
    ELSE <<>>

\* the truth of a string that may be undefined or null: neither that nor ''
TruthyStr(opt) == opt # <<>> /\ opt[1] # <<>>

(***************************************************************************)
(* SpecPath: resolvePath.  path.matched is what globber.globGenerator()    *)
(* yields in all, path.results what it has yet to yield; the files it      *)
(* yields are under the search path.                                       *)
(***************************************************************************)
\* fileName.replace(/^\.\//, '')
StripRelativePrefix(fileName) ==
    IF IsAt(fileName, 1, <<".", "/">>) THEN Slice(fileName, 2) ELSE fileName

SearchPath == <<"/", "w">>

\* the files a glob of **/A.* can yield under the search path
MatchedFiles ==
    { SearchPath \o <<"/">> \o rel :
        rel \in { <<"A", ".", "k">>,
                  <<"s", "/", "A", ".", "j">>,
                  <<"b", "/", "A", ".", "j">> } }

FileNames == { <<"A">>, <<".", "/", "A">> }

Excludes == { <<"/", "b", "/">>, <<"/", "s", "/">>, <<>> }

\* the sequences of at most n elements of S, none twice
RECURSIVE Arrangements(_, _)
Arrangements(S, n) ==
    IF n = 0 THEN { <<>> }
    ELSE { <<>> } \cup UNION { { <<x>> \o rest : rest \in Arrangements(S \ {x}, n - 1) } :
                               x \in S }

InitPath ==
    /\ MainOff
    /\ retry = NoRetry
    /\ loc = NoLoc
    /\ \E fileName \in FileNames, excludeSources \in Arrangements(Excludes, MaxExcludes),
          matched \in Arrangements(MatchedFiles, MaxMatches) :
         path = [pc |-> "glob", fileName |-> fileName,
                 excludeSources |-> excludeSources,
                 normalizedFilename |-> StripRelativePrefix(fileName),
                 searchPath |-> SearchPath, matched |-> matched,
                 results |-> matched, returned |-> <<>>]

\* whether the candidate is taken: !found
NotFound(excludeSources, candidate) == ~TruthyStr(FindIncluded(excludeSources, candidate))

\* one iteration of the loop over the candidates
ResolvePathResult ==
    /\ path.pc = "glob"
    /\ path.results # <<>>
    /\ LET candidate == Head(path.results) IN
       path' = IF NotFound(path.excludeSources, candidate)
               THEN [path EXCEPT !.returned = Slice(candidate, Len(path.searchPath) + 1),
                                 !.pc = "done"]
               ELSE [path EXCEPT !.results = Tail(path.results)]
    /\ UNCHANGED <<mainVars, retry, loc>>

\* no candidate is left: return normalizedFilename
ResolvePathNone ==
    /\ path.pc = "glob"
    /\ path.results = <<>>
    /\ path' = [path EXCEPT !.returned = path.normalizedFilename, !.pc = "done"]
    /\ UNCHANGED <<mainVars, retry, loc>>

NextPath == ResolvePathResult \/ ResolvePathNone

SpecPath == InitPath /\ [][NextPath]_vars

(***************************************************************************)
(* Properties of resolvePath (SpecPath).                                   *)
(***************************************************************************)
\* the candidate contains none of the excluded substrings
Unexcluded(candidate, excludeSources) ==
    \A k \in 1..Len(excludeSources) : ~Includes(candidate, excludeSources[k])

\* C7: resolvePath returns the first candidate, in the order of the glob, that
\* contains none of the excluded substrings, relative to the search path; if
\* every candidate contains one, or there is none, it returns the file name
\* with a leading './' stripped.
C7_FirstUnexcludedCandidate ==
    path.pc = "done" =>
        LET ok == { k \in 1..Len(path.matched) :
                      Unexcluded(path.matched[k], path.excludeSources) }
            dotSlash == /\ Len(path.fileName) >= 2
                        /\ path.fileName[1] = "."
                        /\ path.fileName[2] = "/"
            stripped == IF dotSlash
                        THEN SubSeq(path.fileName, 3, Len(path.fileName))
                        ELSE path.fileName
        IN IF ok = {} THEN path.returned = stripped
           ELSE LET first == CHOOSE k \in ok : \A j \in ok : k <= j IN
                path.searchPath \o <<"/">> \o path.returned = path.matched[first]

(***************************************************************************)
(* SpecLoc: resolveFileAndLine.  loc.searched tells that the stack text    *)
(* was searched (output.match was called).  The catch block is left out:   *)
(* on strings nothing in the try block throws.                             *)
(***************************************************************************)
Digits == <<"0", "1", "2", "3", "4", "5", "6", "7", "8", "9">>

IsDigit(c) == \E d \in 1..Len(Digits) : Digits[d] = c

DigitValue(c) == (CHOOSE d \in 1..Len(Digits) : Digits[d] = c) - 1

IsWhiteSpace(c) == c = " " \/ c = "\n"

RECURSIVE DecimalFrom(_, _, _)
\* the number the digits of str from place p on spell, acc being the number of
\* the digits before
DecimalFrom(str, p, acc) ==
    IF p <= Len(str) /\ IsDigit(str[p])
    THEN DecimalFrom(str, p + 1, 10 * acc + DigitValue(str[p]))
    ELSE acc

RECURSIVE SkipWhiteSpace(_, _)
SkipWhiteSpace(str, p) ==
    IF p <= Len(str) /\ IsWhiteSpace(str[p]) THEN SkipWhiteSpace(str, p + 1) ELSE p

\* parseInt(str), in base ten: white space, a sign, then the longest run of
\* digits; NaN (no value) when there is no digit there.  The prefix '0x', which
\* parseInt reads in base sixteen, is in none of the line tokens tried.
ParseInt(str) ==
    LET p == SkipWhiteSpace(str, 1)
        signed == p <= Len(str) /\ (str[p] = "-" \/ str[p] = "+")
        q == IF signed THEN p + 1 ELSE p
    IN IF q <= Len(str) /\ IsDigit(str[q])
       THEN <<(IF signed /\ str[p] = "-" THEN -1 ELSE 1) * DecimalFrom(str, q, 0)>>
       ELSE <<>>

\* safeParseInt(line): null for a line that is null, '' or not a number
SafeParseInt(line) == IF ~TruthyStr(line) THEN <<>> ELSE ParseInt(line[1])

\* the truth of a number that may be null: neither null nor 0
TruthyNum(opt) == opt # <<>> /\ opt[1] # 0

\* str.split(sep), for a separator of one character
RECURSIVE Split(_, _)
Split(str, sep) ==
    IF \E p \in 1..Len(str) : str[p] = sep
    THEN LET p == CHOOSE p \in 1..Len(str) :
                    str[p] = sep /\ \A r \in 1..(p - 1) : str[r] # sep
         IN <<SubSeq(str, 1, p - 1)>> \o Split(SubSeq(str, p + 1, Len(str)), sep)
    ELSE <<str>>

Last(seq) == seq[Len(seq)]

\* str.replace(lit, by): the first occurrence of lit only
ReplaceFirst(str, lit, by) ==
    IF Includes(str, lit)
    THEN LET p == CHOOSE p \in 1..(Len(str) + 1) :
                    IsAt(str, p, lit) /\ \A r \in 1..(p - 1) : ~IsAt(str, r, lit)
         IN SubSeq(str, 1, p - 1) \o by \o SubSeq(str, p + Len(lit), Len(str))
    ELSE str

EndsWith(str, lit) == IsAt(str, Len(str) - Len(lit) + 1, lit)

\* The text the pattern matches in literal form: the escaping makes every
\* character of fileName stand for itself, and the first '::' becomes '/'.
EscapedFileName(fileName) == ReplaceFirst(fileName, <<":", ":">>, <<"/">>)

RECURSIVE DigitsEnd(_, _)
\* the last place of the run of digits that holds place p
DigitsEnd(str, p) ==
    IF p + 1 <= Len(str) /\ IsDigit(str[p + 1]) THEN DigitsEnd(str, p + 1) ELSE p

\* The match of / [^ ]*NAME.*?:\d+/ that starts at place s of output: its last
\* place, or 0 when there is none.  [^ ]* is greedy, so the longest run of
\* non-spaces after which the rest matches is taken; .*? is lazy and does not
\* cross a line break, so the nearest ':' that a digit follows is taken; \d+
\* is greedy.
MatchAt(output, s, name) ==
    LET run == CHOOSE n \in 0..(Len(output) - s) :
                   /\ \A i \in 1..n : output[s + i] # " "
                   /\ n = Len(output) - s \/ output[s + n + 1] = " "
        Colons(n) ==
            LET q0 == s + 1 + n + Len(name) IN
            { q \in q0..(Len(output) - 1) :
                /\ output[q] = ":"
                /\ IsDigit(output[q + 1])
                /\ \A r \in q0..(q - 1) : output[r] # "\n" }
        ns == { n \in 0..run : IsAt(output, s + 1 + n, name) /\ Colons(n) # {} }
    IN IF output[s] # " " \/ ns = {} THEN 0
       ELSE LET n == CHOOSE n \in ns : \A m \in ns : m <= n
                q == CHOOSE q \in Colons(n) : \A r \in Colons(n) : q <= r
            IN DigitsEnd(output, q + 1)

RECURSIVE MatchesFrom(_, _, _)
\* output.match(new RegExp(..., 'g')) from place s on: the matches from left to
\* right, none overlapping another
MatchesFrom(output, s, name) ==
    IF s > Len(output) THEN <<>>
    ELSE LET e == MatchAt(output, s, name) IN
         IF e = 0 THEN MatchesFrom(output, s + 1, name)
         ELSE <<SubSeq(output, s, e)>> \o MatchesFrom(output, e + 1, name)

\* a mutant of Explicit: only a positive line number counts
Explicit_PositiveOnly(fileName, lineNumber) ==
    fileName # <<>> /\ lineNumber # <<>> /\ lineNumber[1] > 0

\* fileName && lineNumber
Explicit(fileName, lineNumber) == fileName # <<>> /\ TruthyNum(lineNumber)

LocFiles == { <<>>, <<<<>>>>, <<<<"F">>>> }

LocLines == { <<>>, <<<<>>>>, <<<<"0">>>>, <<<<"7">>>>, <<<<"x">>>>,
              <<<<"1", "x">>>>, <<<<"-", "2">>>> }

LocClassNames == { <<"p", ".", "A">>, <<"c", ":", ":", "m">> }

LocOutputs ==
    { <<>>,
      <<" ", "A", ".", "k", ":", "1", "2", " ", "A", ":", "3">>,
      <<" ", "s", "/", "c", "/", "m", ".", "r", "s", ":", "7", ":", "3">>,
      <<" ", "a", "t", " ", "F", ":", "0">>,
      <<"a", "t", " ", "\n", "F", " ", ":", "4">> }

InitLoc ==
    /\ MainOff
    /\ retry = NoRetry
    /\ path = NoPath
    /\ \E file \in LocFiles, line \in LocLines, className \in LocClassNames,
          output \in LocOutputs :
         loc = [NoLoc EXCEPT !.pc = "start", !.file = file, !.line = line,
                             !.className = className, !.output = output]

\* fileName and lineNumber are set; both given, they are returned
LocExplicit ==
    /\ loc.pc = "start"
    /\ LET fileName == IF TruthyStr(loc.file) THEN loc.file[1]
                       ELSE Last(Split(loc.className, "."))
           lineNumber == SafeParseInt(loc.line)
       IN loc' = IF Explicit(fileName, lineNumber)
                 THEN [loc EXCEPT !.fileName = fileName, !.lineNumber = lineNumber,
                                  !.pos = [fileName |-> fileName, line |-> lineNumber[1]],
                                  !.pc = "done"]
                 ELSE [loc EXCEPT !.fileName = fileName, !.lineNumber = lineNumber,
                                  !.pc = "search"]
    /\ UNCHANGED <<mainVars, retry, path>>

\* the stack text is searched; with no match, the line is lineNumber || 1
LocSearch ==
    /\ loc.pc = "search"
    /\ LET matches == MatchesFrom(loc.output, 1, EscapedFileName(loc.fileName)) IN
       loc' = IF matches = <<>>
              THEN [loc EXCEPT !.searched = TRUE,
                               !.pos = [fileName |-> loc.fileName,
                                        line |-> IF TruthyNum(loc.lineNumber)
                                                 THEN loc.lineNumber[1] ELSE 1],
                               !.pc = "done"]
              ELSE [loc EXCEPT !.searched = TRUE, !.matches = matches, !.pc = "tokens"]
    /\ UNCHANGED <<mainVars, retry, path>>

\* the last match gives the line and, for a Rust file, the file name; the
\* parameter line, assigned here, is not read after the return
LocTokens ==
    /\ loc.pc = "tokens"
    /\ LET lastItem == Last(loc.matches)
           tokens == Split(lastItem, ":")
           popped == Last(tokens)
           line == IF popped = <<>> THEN <<"0">> ELSE popped
           rest == SubSeq(tokens, 1, Len(tokens) - 1)
           lineNumberPrefix == IF rest = <<>> THEN <<>> ELSE Last(rest)
           fileName == IF EndsWith(lineNumberPrefix, <<".", "r", "s">>)
                       THEN Last(Split(lineNumberPrefix, " "))
                       ELSE loc.fileName
           parsed == SafeParseInt(<<line>>)
       IN loc' = [loc EXCEPT !.fileName = fileName,
                             !.pos = [fileName |-> fileName,
                                      line |-> IF TruthyNum(parsed) THEN parsed[1]
                                               ELSE -1],
                             !.pc = "done"]
    /\ UNCHANGED <<mainVars, retry, path>>

NextLoc == LocExplicit \/ LocSearch \/ LocTokens

SpecLoc == InitLoc /\ [][NextLoc]_vars

(***************************************************************************)
(* Properties of resolveFileAndLine (SpecLoc).                             *)
(***************************************************************************)
\* C8: with an explicit file name and an explicit line token that parses as
\* an integer, '0' included, the result is that file and that integer, and
\* the stack text is not searched.
C8_Original ==
    (/\ loc.pc = "done"
     /\ TruthyStr(loc.file)
     /\ TruthyStr(loc.line)
     /\ ParseInt(loc.line[1]) # <<>>)
        => /\ loc.pos = [fileName |-> loc.file[1], line |-> ParseInt(loc.line[1])[1]]
           /\ ~loc.searched

\* C8, amended: with an explicit file name and an explicit line token that
\* parses as an integer other than 0, the result is that file and that
\* integer, and the stack text is not searched.
C8_ExplicitWins ==
    (/\ loc.pc = "done"
     /\ TruthyStr(loc.file)
     /\ TruthyStr(loc.line)
     /\ ParseInt(loc.line[1]) # <<>>
     /\ ParseInt(loc.line[1])[1] # 0)
        => /\ loc.pos = [fileName |-> loc.file[1], line |-> ParseInt(loc.line[1])[1]]
           /\ ~loc.searched

\* the file F and the line '1x', which parses as 1, over a stack text that names F
C8_Witness ==
    /\ loc.pc = "done"
    /\ loc.file = <<<<"F">>>>
    /\ loc.line = <<<<"1", "x">>>>
    /\ loc.output = <<" ", "a", "t", " ", "F", ":", "0">>
    /\ loc.pos = [fileName |-> <<"F">>, line |-> 1]
    /\ ~loc.searched

(***************************************************************************)
(* Properties of the checkRetries block (SpecRetry).                       *)
(***************************************************************************)
RECURSIVE FirstNames(_, _)
\* the names of the test cases from the k-th on that are not in seen, each
\* once, in the order of their first occurrence
FirstNames(testcase, seen) ==
    IF testcase = <<>> THEN <<>>
    ELSE IF Head(testcase).name \in seen THEN FirstNames(Tail(testcase), seen)
         ELSE <<Head(testcase).name>>
              \o FirstNames(Tail(testcase), seen \cup {Head(testcase).name})

\* the places of the test cases named name
Occurrences(testcase, name) == { k \in 1..Len(testcase) : testcase[k].name = name }

\* C5: the reconciled test cases are one per distinct name, in the order of
\* the first occurrence of each name, each one a test case of that name; when
\* the first occurrence of a name fails and a later one passes, the one kept
\* passes and stands where the first occurrence stood.
C5_OnePerNameInFirstOrder ==
    retry.pc = "done" =>
        LET names == FirstNames(retry.testcase, {}) IN
        /\ Len(retry.testcases) = Len(names)
        /\ \A i \in 1..Len(names) :
              /\ retry.testcases[i].name = names[i]
              /\ \E k \in Occurrences(retry.testcase, names[i]) :
                    retry.testcases[i] = retry.testcase[k]
              /\ (\E k \in Occurrences(retry.testcase, names[i]) :
                     ~TestFailure(retry.testcase[k]))
                 => ~TestFailure(retry.testcases[i])

\* T fails, U runs, T passes: the passing T is kept, before U
C5_Witness ==
    /\ retry.pc = "done"
    /\ Len(retry.testcase) = 3
    /\ retry.testcase[1] = TC("T", TRUE, FALSE, FALSE, "")
    /\ retry.testcase[2].name = "U"
    /\ retry.testcase[3] = TC("T", FALSE, FALSE, FALSE, "")
    /\ retry.testcases = <<retry.testcase[3], retry.testcase[2]>>

\* C9: the test case kept for a name has a failure or error payload if and
\* only if every test case of that name has one.
C9_FailsIffAllFail ==
    retry.pc = "done" =>
        \A i \in 1..Len(retry.testcases) :
            TestFailure(retry.testcases[i])
            <=> \A k \in Occurrences(retry.testcase, retry.testcases[i].name) :
                    TestFailure(retry.testcase[k])

\* T fails, passes, then errors: the passing run is kept
C9_Witness ==
    /\ retry.pc = "done"
    /\ Len(retry.testcase) = 3
    /\ \A k \in 1..3 : retry.testcase[k].name = "T"
    /\ TestFailure(retry.testcase[1])
    /\ ~TestFailure(retry.testcase[2])
    /\ TestFailure(retry.testcase[3])
    /\ retry.testcases = <<retry.testcase[2]>>

====
